---- MODULE Spec2Model ----
(***************************************************************************)
(* Model of Org_Hierarchy/get_org_hierarchy_solo.py: main() from the point  *)
(* where the directory records have been fetched: local filtering, the      *)
(* lookup tables, root selection, the recursive hierarchy build, the        *)
(* manager counts and the write of the output file.                         *)
(*                                                                          *)
(* Strings are sequences of one-character strings, so that lower(),         *)
(* substring tests, startswith and the code-point order are computed.       *)
(* Python's None is the empty sequence where a value is optional            *)
(* (root_user, org_hierarchy: <<>> or <<value>>); a manager of 0 is a       *)
(* record without a manager reference.                                      *)
(***************************************************************************)
EXTENDS Integers, Sequences, FiniteSets, TLC

\* Largest number of raw directory records of an input.
MaxUsers == 3

VARIABLES all_users_raw, start_email, all_users, users_by_id, reports_by_manager,
          root_candidates, root_user, stack, org_hierarchy, total_managers,
          standard_list_managers, output_written, warned_missing, pc

vars == <<all_users_raw, start_email, all_users, users_by_id, reports_by_manager,
          root_candidates, root_user, stack, org_hierarchy, total_managers,
          standard_list_managers, output_written, warned_missing, pc>>

-----------------------------------------------------------------------------
(* Strings *)

UpperCase == <<"A","B","C","D","E","F","G","H","I","J","K","L","M",
               "N","O","P","Q","R","S","T","U","V","W","X","Y","Z">>
LowerCase == <<"a","b","c","d","e","f","g","h","i","j","k","l","m",
               "n","o","p","q","r","s","t","u","v","w","x","y","z">>

\* The characters of the model in code-point order.
CodePoints == <<" ", "#", ".", "@">> \o UpperCase \o LowerCase

Chars == { CodePoints[i] : i \in 1..Len(CodePoints) }

\* The rank of each character in that order.
Ord == [c \in Chars |-> CHOOSE i \in 1..Len(CodePoints) : CodePoints[i] = c]

\* str.lower() on one character: an upper-case letter becomes its lower-case
\* letter, every other character is kept.
LowerChar ==
    [c \in Chars |->
        IF \E i \in 1..26 : UpperCase[i] = c
        THEN LowerCase[CHOOSE i \in 1..26 : UpperCase[i] = c]
        ELSE c]

\* str.lower()
Lower(s) == [i \in 1..Len(s) |-> LowerChar[s[i]]]

\* sub in s
Contains(sub, s) ==
    \E i \in 0..(Len(s) - Len(sub)) : SubSeq(s, i + 1, i + Len(sub)) = sub

\* s.startswith(prefix)
StartsWith(s, prefix) ==
    Len(prefix) <= Len(s) /\ SubSeq(s, 1, Len(prefix)) = prefix

\* a < b for Python strings: at the first differing position by code point,
\* a proper prefix before the longer string.
StrLess(a, b) ==
    \E i \in 1..(Len(b)) :
        /\ \A j \in 1..(i - 1) : j <= Len(a) /\ a[j] = b[j]
        /\ \/ i = Len(a) + 1
           \/ i <= Len(a) /\ Ord[a[i]] < Ord[b[i]]

-----------------------------------------------------------------------------
(* Local filtering, main lines 226-254 *)

excluded_patterns ==
    << <<"#","E","X","T","#">>,
       <<"@","a","v","e","t","t","a","1",".","o","n","m","i","c","r","o","s","o","f","t",".","c","o","m">>,
       <<"a","d","m","i","n","@">>,
       <<"n","o","r","e","p","l","y">>,
       <<"a","c","c","o","u","n","t","s","@">>,
       <<"a","d","m",".">>,
       <<"a","b","u","s","e","@">> >>

\* The record passes the checks of lines 241-248.
PassesLocalFilter(user) ==
    /\ user.mail # <<>>
    /\ user.jobTitle # <<>>
    /\ LET upn == Lower(user.userPrincipalName)
       IN ~ \E k \in 1..Len(excluded_patterns) : Contains(excluded_patterns[k], upn)
    /\ LET display_name == Lower(user.displayName)
       IN ~ StartsWith(display_name, <<"a","d","m">>)

RECURSIVE FilterUsers(_)
FilterUsers(raw) ==
    IF raw = <<>> THEN <<>>
    ELSE IF PassesLocalFilter(Head(raw))
         THEN <<Head(raw)>> \o FilterUsers(Tail(raw))
         ELSE FilterUsers(Tail(raw))

-----------------------------------------------------------------------------
(* Lookup tables, main lines 256-272 *)

\* d[k] = v on a dict.
Put(d, k, v) == [x \in (DOMAIN d) \cup {k} |-> IF x = k THEN v ELSE d[x]]

\* d.get(k, [])
Get(d, k) == IF k \in DOMAIN d THEN d[k] ELSE <<>>

\* {user['id']: user for user in all_users}: a later record replaces an
\* earlier one with the same id.
RECURSIVE DictOfUsers(_, _)
DictOfUsers(users, d) ==
    IF users = <<>> THEN d
    ELSE DictOfUsers(Tail(users), Put(d, Head(users).id, Head(users)))

UsersById(users) == DictOfUsers(users, <<>>)

\* Mutation: the manager's id is not looked up in users_by_id.
HasManagerInSet_AnyManager(user, byId) == user.manager # 0

\* manager_info and manager_info.get('id') in users_by_id
HasManagerInSet(user, byId) ==
    user.manager # 0 /\ user.manager \in DOMAIN byId

\* Mutation: a record whose manager was filtered out is not made a root
\* candidate (the elif branch only logs).
IndexStep_OrphansDropped(acc, user, byId) ==
    IF HasManagerInSet(user, byId)
    THEN [acc EXCEPT !.reports =
              Put(@, user.manager, Append(Get(@, user.manager), user.id))]
    ELSE IF user.manager # 0 THEN acc
    ELSE [acc EXCEPT !.candidates = Append(@, user)]

\* Mutation: the append to root_candidates is outside the else, so that a
\* record with a manager in the set is a root candidate too.
IndexStep_EveryoneCandidate(acc, user, byId) ==
    IF HasManagerInSet(user, byId)
    THEN [acc EXCEPT !.reports =
              Put(@, user.manager, Append(Get(@, user.manager), user.id)),
                     !.candidates = Append(@, user)]
    ELSE [acc EXCEPT !.candidates = Append(@, user)]

\* One pass of the loop of lines 262-270 over acc = [reports, candidates].
IndexStep(acc, user, byId) ==
    IF HasManagerInSet(user, byId)
    THEN [acc EXCEPT !.reports =
              Put(@, user.manager, Append(Get(@, user.manager), user.id))]
    ELSE [acc EXCEPT !.candidates = Append(@, user)]

RECURSIVE IndexLoop(_, _, _)
IndexLoop(users, byId, acc) ==
    IF users = <<>> THEN acc
    ELSE IndexLoop(Tail(users), byId, IndexStep(acc, Head(users), byId))

BuildLookups(users) ==
    IndexLoop(users, UsersById(users), [reports |-> <<>>, candidates |-> <<>>])

-----------------------------------------------------------------------------
(* Root selection, main lines 274-310 *)

\* Mutation: the record's addresses are compared without lower().
EmailMatches_CaseSensitive(user, email) ==
    user.mail = email \/ user.userPrincipalName = email

\* user.get('mail', '').lower() == email or
\* user.get('userPrincipalName', '').lower() == email
EmailMatches(user, email) ==
    Lower(user.mail) = email \/ Lower(user.userPrincipalName) = email

RECURSIVE FirstMatch(_, _)
FirstMatch(email, users) ==
    IF users = <<>> THEN <<>>
    ELSE IF EmailMatches(Head(users), email) THEN <<Head(users)>>
         ELSE FirstMatch(email, Tail(users))

find_user_by_email_in_list(email, users) ==
    IF email = <<>> THEN <<>> ELSE FirstMatch(Lower(email), users)

executive_titles_highest ==
    << <<"c","e","o">>,
       <<"c","h","i","e","f"," ","e","x","e","c","u","t","i","v","e">>,
       <<"p","r","e","s","i","d","e","n","t">> >>
executive_titles_clevel ==
    << <<"c","t","o">>, <<"c","f","o">>, <<"c","i","o">>, <<"c","o","o">>,
       <<"c","h","i","e","f"," ">> >>
executive_titles_svp ==
    << <<"s","e","n","i","o","r"," ","v","i","c","e"," ","p","r","e","s","i","d","e","n","t">>,
       <<"s","v","p">> >>
executive_titles_vp ==
    << <<"v","i","c","e"," ","p","r","e","s","i","d","e","n","t">>,
       <<"v","p">> >>

\* any(title in user.get('jobTitle', '').lower() for title in titles)
AnyTitle(user, titles) ==
    LET job_title == Lower(user.jobTitle)
    IN \E k \in 1..Len(titles) : Contains(titles[k], job_title)

\* The sort key of lines 294-300.
SortKey(user) ==
    << ~AnyTitle(user, executive_titles_highest),
       ~AnyTitle(user, executive_titles_clevel),
       ~AnyTitle(user, executive_titles_svp),
       ~AnyTitle(user, executive_titles_vp),
       user.displayName >>

\* Mutation: the candidates are ordered by display name alone.
KeyLess_NameOnly(a, b) == StrLess(a[5], b[5])

\* a < b on the key tuples: False before True, then the display name.
KeyLess(a, b) ==
    \E i \in 1..5 :
        /\ \A j \in 1..(i - 1) : a[j] = b[j]
        /\ IF i = 5 THEN StrLess(a[5], b[5]) ELSE (~a[i] /\ b[i])

\* list.sort is stable: a record goes before the first sorted record whose
\* key is greater than its own.
RECURSIVE InsertByKey(_, _)
InsertByKey(u, sorted) ==
    IF sorted = <<>> THEN <<u>>
    ELSE IF KeyLess(SortKey(u), SortKey(Head(sorted)))
         THEN <<u>> \o sorted
         ELSE <<Head(sorted)>> \o InsertByKey(u, Tail(sorted))

RECURSIVE SortCandidates(_)
SortCandidates(cands) ==
    IF cands = <<>> THEN <<>>
    ELSE InsertByKey(cands[Len(cands)], SortCandidates(SubSeq(cands, 1, Len(cands) - 1)))

-----------------------------------------------------------------------------
(* build_local_hierarchy, lines 148-183, and count_managers_in_hierarchy,   *)
(* lines 330-341                                                            *)

\* Deepest nesting of build_local_hierarchy calls the interpreter allows
\* before it raises RecursionError (sys.getrecursionlimit()), scaled to the
\* model: a chain of distinct ids is at most MaxUsers deep.
RecursionLimit == MaxUsers + 1

\* The call's locals on entry, lines 154-161.
NewFrame(user_id, reports) ==
    [user_id |-> user_id,
     direct_report_ids |-> Get(reports, user_id),
     next |-> 1,
     direct_reports |-> <<>>,
     has_manager_reports |-> FALSE]

\* Mutation: any report that was built counts as a manager.
HasOwnReports_AnyReport(report_node) == TRUE

\* report_node.get("directReports") and len(report_node["directReports"]) > 0
HasOwnReports(report_node) == Len(report_node.directReports) > 0

\* The dict of lines 171-181 (department is carried like the other fields
\* and left out).
HierarchyNode(user_data, direct_reports, has_manager_reports) ==
    [id |-> user_data.id,
     displayName |-> user_data.displayName,
     userPrincipalName |-> user_data.userPrincipalName,
     mail |-> user_data.mail,
     jobTitle |-> user_data.jobTitle,
     directReports |-> direct_reports,
     hasManagerReports |-> has_manager_reports,
     needsStandardList |-> has_manager_reports]

\* Lines 165-169 in the caller, for a report_node that was returned.
AddReport(frame, report_node) ==
    [frame EXCEPT !.direct_reports = Append(@, report_node),
                  !.has_manager_reports = @ \/ HasOwnReports(report_node),
                  !.next = @ + 1]

\* Mutation: the test of line 333 is missing, every node counts as a manager.
OwnCount_EveryNode(node) ==
    <<1, IF node.needsStandardList THEN 1 ELSE 0>>

\* This node's own contribution, lines 331-336.
OwnCount(node) ==
    IF node.directReports # <<>>
    THEN <<1, IF node.needsStandardList THEN 1 ELSE 0>>
    ELSE <<0, 0>>

RECURSIVE count_managers_in_hierarchy(_)
RECURSIVE CountReports(_, _)
\* The loop of lines 337-340 over the reports from position k on.
CountReports(reports, k) ==
    IF k > Len(reports) THEN <<0, 0>>
    ELSE LET ts == count_managers_in_hierarchy(reports[k])
             rest == CountReports(reports, k + 1)
         IN <<ts[1] + rest[1], ts[2] + rest[2]>>

count_managers_in_hierarchy(node) ==
    LET own == OwnCount(node)
        sub == CountReports(node.directReports, 1)
    IN <<own[1] + sub[1], own[2] + sub[2]>>

-----------------------------------------------------------------------------
(* Inputs *)

User(id, manager, displayName, jobTitle, mail, upn) ==
    [id |-> id, manager |-> manager, displayName |-> displayName,
     jobTitle |-> jobTitle, mail |-> mail, userPrincipalName |-> upn]

\* The person at position i of a directory listing: A (CEO, a@x), B (VP Eng,
\* b@x), then C, D, ... (Engineer).
Person(i, id, manager) ==
    User(id, manager, <<UpperCase[i]>>,
         IF i = 1 THEN <<"C","E","O">>
         ELSE IF i = 2 THEN <<"V","P"," ","E","n","g">>
         ELSE <<"E","n","g","i","n","e","e","r">>,
         <<LowerCase[i], "@", "x">>, <<LowerCase[i], "@", "x">>)

Max(S) == IF S = {} THEN 0 ELSE CHOOSE x \in S : \A y \in S : y <= x

\* The ids of n records up to renaming (ids are opaque: the code only tests
\* them for equality): the first record has id 1 and a record's id is one
\* already met or the next unused number. Shared ids are included.
IdSeqs(n) ==
    { ids \in [1..n -> 1..MaxUsers] :
        \A i \in 1..n : ids[i] <= Max({ ids[j] : j \in 1..(i - 1) }) + 1 }

\* Directory listings of n people with every assignment of manager
\* references to those ids: none (0), an id of the listing (cycles and
\* self-reference included) or an id that is not in the listing.
Listings(n) ==
    UNION { { [i \in 1..n |-> Person(i, ids[i], mgr[i])] :
                mgr \in [1..n -> 0..(Max({ ids[j] : j \in 1..n }) + 1)] } :
            ids \in IdSeqs(n) }

StartEmails == { <<>>, <<"a","@","x">>, <<"b","@","x">> }

\* People with the titles, names and addresses that root selection and the
\* local filter tell apart. Dan is removed by the filter (display name).
Staff ==
    << [displayName |-> <<"Z","e","d">>,
        jobTitle |-> <<"C","h","i","e","f"," ","E","x","e","c","u","t","i","v","e">>,
        mail |-> <<"z","@","x">>, userPrincipalName |-> <<"z","@","x">>],
       [displayName |-> <<"A","m","y">>,
        jobTitle |-> <<"C","E","O">>,
        mail |-> <<"A","@","x">>, userPrincipalName |-> <<"a","m","y","@","x">>],
       [displayName |-> <<"B","o","b">>,
        jobTitle |-> <<"S","V","P">>,
        mail |-> <<"b","@","x">>, userPrincipalName |-> <<"b","@","x">>],
       [displayName |-> <<"C","a","t">>,
        jobTitle |-> <<"D","e","v">>,
        mail |-> <<"c","@","x">>, userPrincipalName |-> <<"Z","@","x">>],
       [displayName |-> <<"A","d","m"," ","D","a","n">>,
        jobTitle |-> <<"P","r","e","s","i","d","e","n","t">>,
        mail |-> <<"a","@","x">>, userPrincipalName |-> <<"d","@","x">>] >>

\* Listings of n of these people, record i with id i, each without a manager
\* or reporting to the first record.
StaffListings(n) ==
    { [i \in 1..n |-> User(i, m[i],
                           Staff[f[i]].displayName, Staff[f[i]].jobTitle,
                           Staff[f[i]].mail, Staff[f[i]].userPrincipalName)] :
        f \in [1..n -> 1..Len(Staff)],
        m \in { g \in [1..n -> {0, 1}] : n > 0 => g[1] = 0 } }

StaffStartEmails == { <<>>, <<"a","@","x">>, <<"Z","@","X">> }

InitWith(listings, emails) ==
    /\ all_users_raw \in listings
    /\ start_email \in emails
    /\ all_users = <<>>
    /\ users_by_id = <<>>
    /\ reports_by_manager = <<>>
    /\ root_candidates = <<>>
    /\ root_user = <<>>
    /\ stack = <<>>
    /\ org_hierarchy = <<>>
    /\ total_managers = 0
    /\ standard_list_managers = 0
    /\ output_written = FALSE
    /\ warned_missing = FALSE
    /\ pc = "filter"

Init == InitWith(UNION { Listings(n) : n \in 0..MaxUsers }, StartEmails)

InitRoot == InitWith(UNION { StaffListings(n) : n \in 0..MaxUsers }, StaffStartEmails)

-----------------------------------------------------------------------------
(* main, lines 196-356 *)

\* Lines 222-224: nothing was fetched.
NoUsers ==
    /\ pc = "filter"
    /\ all_users_raw = <<>>
    /\ pc' = "aborted"
    /\ UNCHANGED <<all_users_raw, start_email, all_users, users_by_id,
                   reports_by_manager, root_candidates, root_user, stack,
                   org_hierarchy, total_managers, standard_list_managers,
                   output_written, warned_missing>>

\* Lines 226-254.
LocalFilter ==
    /\ pc = "filter"
    /\ all_users_raw # <<>>
    /\ all_users' = FilterUsers(all_users_raw)
    /\ pc' = "index"
    /\ UNCHANGED <<all_users_raw, start_email, users_by_id, reports_by_manager,
                   root_candidates, root_user, stack, org_hierarchy,
                   total_managers, standard_list_managers, output_written,
                   warned_missing>>

\* Lines 256-272.
BuildLookupTables ==
    /\ pc = "index"
    /\ users_by_id' = UsersById(all_users)
    /\ LET built == BuildLookups(all_users)
       IN /\ reports_by_manager' = built.reports
          /\ root_candidates' = built.candidates
    /\ pc' = "select"
    /\ UNCHANGED <<all_users_raw, start_email, all_users, root_user, stack,
                   org_hierarchy, total_managers, standard_list_managers,
                   output_written, warned_missing>>

\* Lines 276-281.
SelectExplicit ==
    /\ pc = "select"
    /\ start_email # <<>>
    /\ root_user' = find_user_by_email_in_list(start_email, all_users)
    /\ pc' = IF root_user' = <<>> THEN "aborted" ELSE "build"
    /\ UNCHANGED <<all_users_raw, start_email, all_users, users_by_id,
                   reports_by_manager, root_candidates, stack, org_hierarchy,
                   total_managers, standard_list_managers, output_written,
                   warned_missing>>

\* Lines 282-310.
SelectAutomatic ==
    /\ pc = "select"
    /\ start_email = <<>>
    /\ IF root_candidates = <<>>
       THEN /\ pc' = "aborted"
            /\ UNCHANGED <<root_candidates, root_user>>
       ELSE /\ root_candidates' = SortCandidates(root_candidates)
            /\ root_user' = <<root_candidates'[1]>>
            /\ pc' = "build"
    /\ UNCHANGED <<all_users_raw, start_email, all_users, users_by_id,
                   reports_by_manager, stack, org_hierarchy, total_managers,
                   standard_list_managers, output_written, warned_missing>>

\* Line 314, the outermost call; lines 150-152 and 355-356 when the id is
\* unknown.
BuildEnter ==
    /\ pc = "build"
    /\ IF root_user[1].id \in DOMAIN users_by_id
       THEN /\ stack' = <<NewFrame(root_user[1].id, reports_by_manager)>>
            /\ pc' = "building"
            /\ UNCHANGED warned_missing
       ELSE /\ warned_missing' = TRUE
            /\ pc' = "failed"
            /\ UNCHANGED stack
    /\ UNCHANGED <<all_users_raw, start_email, all_users, users_by_id,
                   reports_by_manager, root_candidates, root_user,
                   org_hierarchy, total_managers, standard_list_managers,
                   output_written>>

\* Line 164: the call for the next report id. Lines 150-152 return None for
\* an unknown id and the caller goes on; a call nested deeper than the
\* interpreter allows raises RecursionError, which nothing catches.
BuildDescend ==
    /\ pc = "building"
    /\ LET top == stack[Len(stack)]
       IN /\ top.next <= Len(top.direct_report_ids)
          /\ LET report_id == top.direct_report_ids[top.next]
             IN IF report_id \notin DOMAIN users_by_id
                THEN /\ warned_missing' = TRUE
                     /\ stack' = [stack EXCEPT ![Len(stack)].next = @ + 1]
                     /\ pc' = pc
                ELSE IF Len(stack) >= RecursionLimit
                THEN /\ pc' = "crashed"
                     /\ UNCHANGED <<stack, warned_missing>>
                ELSE /\ stack' = Append(stack, NewFrame(report_id, reports_by_manager))
                     /\ pc' = pc
                     /\ UNCHANGED warned_missing
    /\ UNCHANGED <<all_users_raw, start_email, all_users, users_by_id,
                   reports_by_manager, root_candidates, root_user,
                   org_hierarchy, total_managers, standard_list_managers,
                   output_written>>

\* Lines 171-183: the loop is over, the node is returned to the caller
\* (lines 165-169) or to main (line 314).
BuildReturn ==
    /\ pc = "building"
    /\ LET top == stack[Len(stack)]
           node == HierarchyNode(users_by_id[top.user_id], top.direct_reports,
                                 top.has_manager_reports)
       IN /\ top.next > Len(top.direct_report_ids)
          /\ IF Len(stack) = 1
             THEN /\ stack' = <<>>
                  /\ org_hierarchy' = <<node>>
                  /\ pc' = "summary"
             ELSE /\ stack' = [SubSeq(stack, 1, Len(stack) - 1)
                                  EXCEPT ![Len(stack) - 1] = AddReport(@, node)]
                  /\ pc' = pc
                  /\ UNCHANGED org_hierarchy
    /\ UNCHANGED <<all_users_raw, start_email, all_users, users_by_id,
                   reports_by_manager, root_candidates, root_user,
                   total_managers, standard_list_managers, output_written,
                   warned_missing>>

\* Lines 330-347.
Summarise ==
    /\ pc = "summary"
    /\ LET ts == count_managers_in_hierarchy(org_hierarchy[1])
       IN /\ total_managers' = ts[1]
          /\ standard_list_managers' = ts[2]
    /\ pc' = "write"
    /\ UNCHANGED <<all_users_raw, start_email, all_users, users_by_id,
                   reports_by_manager, root_candidates, root_user, stack,
                   org_hierarchy, output_written, warned_missing>>

\* Lines 349-354: the file is written, or the write fails and is logged.
WriteOutput ==
    /\ pc = "write"
    /\ \E ok \in BOOLEAN : output_written' = ok
    /\ pc' = "done"
    /\ UNCHANGED <<all_users_raw, start_email, all_users, users_by_id,
                   reports_by_manager, root_candidates, root_user, stack,
                   org_hierarchy, total_managers, standard_list_managers,
                   warned_missing>>

Next ==
    \/ NoUsers
    \/ LocalFilter
    \/ BuildLookupTables
    \/ SelectExplicit
    \/ SelectAutomatic
    \/ BuildEnter
    \/ BuildDescend
    \/ BuildReturn
    \/ Summarise
    \/ WriteOutput

Spec == Init /\ [][Next]_vars

SpecRoot == InitRoot /\ [][Next]_vars

-----------------------------------------------------------------------------
(* Vocabulary of the properties *)

\* The lookup tables have been built.
Indexed == pc \notin {"filter", "index"}

\* Root selection is over.
Selected == pc \notin {"filter", "index", "select"}

\* The positions of a tree's nodes: the index path from the root to each.
RECURSIVE PathsOf(_)
PathsOf(node) ==
    { <<>> } \cup
    UNION { { <<i>> \o p : p \in PathsOf(node.directReports[i]) } :
            i \in 1..Len(node.directReports) }

RECURSIVE NodeAt(_, _)
NodeAt(node, path) ==
    IF path = <<>> THEN node
    ELSE NodeAt(node.directReports[Head(path)], Tail(path))

Range(seq) == { seq[i] : i \in 1..Len(seq) }

IdsOf(users) == { users[i].id : i \in 1..Len(users) }

DistinctIds(users) ==
    \A i, j \in 1..Len(users) : users[i].id = users[j].id => i = j

\* Everything reached from the ids of S along the edges E (pairs <<from, to>>).
RECURSIVE ReachedFrom(_, _)
ReachedFrom(S, E) ==
    LET T == S \cup { e[2] : e \in { d \in E : d[1] \in S } }
    IN IF T = S THEN S ELSE ReachedFrom(T, E)

\* id -> manager id, for the manager references that stay inside the set.
ManagerEdges(users) ==
    { <<users[i].id, users[i].manager>> :
        i \in { k \in 1..Len(users) : users[k].manager \in IdsOf(users) } }

\* Some id is its own manager, directly or through a chain of managers.
CyclicManagers(users) ==
    \E e \in ManagerEdges(users) : e[1] \in ReachedFrom({e[2]}, ManagerEdges(users))

\* manager id -> report id, as reports_by_manager holds them.
ReportEdges(reports) ==
    UNION { { <<k, reports[k][i]>> : i \in 1..Len(reports[k]) } : k \in DOMAIN reports }

-----------------------------------------------------------------------------
(* Properties *)

\* C1: build_local_hierarchy terminates for every filtered set and starting
\* id, cyclic manager references included: the nesting of calls never grows
\* until the interpreter gives up with RecursionError.
C1_BuildTerminates == pc # "crashed"

\* C2 as stated: after the index-building loop root_candidates is non-empty
\* whenever the filtered set is non-empty, for every assignment of manager
\* references.
C2_RootCandidatesNonEmpty ==
    (Indexed /\ all_users # <<>>) => root_candidates # <<>>

\* C2 amended: after the index-building loop root_candidates is non-empty
\* whenever the filtered set is non-empty and its manager references hold no
\* cycle.
C2_RootCandidatesNonEmptyAcyclic ==
    (Indexed /\ all_users # <<>> /\ ~CyclicManagers(all_users))
        => root_candidates # <<>>

\* C2 witness: a set of several records without a cycle, somebody reporting
\* to somebody, after the index-building loop.
C2_Witness ==
    /\ Indexed
    /\ Len(all_users) >= 2
    /\ ~CyclicManagers(all_users)
    /\ reports_by_manager # <<>>
    /\ root_candidates # <<>>

\* C3: when records of the filtered set share an id, users_by_id maps the id
\* to the record that occurs first in input order.
C3_FirstOccurrenceWins ==
    Indexed =>
        \A i \in 1..Len(all_users) :
            (\A j \in 1..(i - 1) : all_users[j].id # all_users[i].id)
                => users_by_id[all_users[i].id] = all_users[i]

\* The title tier of a record: 1 highest, 2 C-level, 3 SVP, 4 VP, 5 none.
Tier(user) ==
    IF AnyTitle(user, executive_titles_highest) THEN 1
    ELSE IF AnyTitle(user, executive_titles_clevel) THEN 2
    ELSE IF AnyTitle(user, executive_titles_svp) THEN 3
    ELSE IF AnyTitle(user, executive_titles_vp) THEN 4
    ELSE 5

\* Which of the four title lists a record's job title matches, in order.
TitleChecks(user) ==
    << AnyTitle(user, executive_titles_highest),
       AnyTitle(user, executive_titles_clevel),
       AnyTitle(user, executive_titles_svp),
       AnyTitle(user, executive_titles_vp) >>

\* a is preferred to b by the title checks alone: at the first check where
\* they differ, a matches and b does not.
ChecksPrefer(a, b) ==
    LET ca == TitleChecks(a)
        cb == TitleChecks(b)
    IN \E i \in 1..4 :
        /\ \A j \in 1..(i - 1) : ca[j] = cb[j]
        /\ ca[i] /\ ~cb[i]

AutoSelected == start_email = <<>> /\ root_user # <<>>

\* C4 as stated: in automatic mode the selected root is a candidate of the
\* best title tier present and has the smallest display name among all the
\* candidates of that tier.
C4_BestTierSmallestName ==
    AutoSelected =>
        /\ root_user[1] \in Range(root_candidates)
        /\ \A c \in Range(root_candidates) :
              /\ Tier(root_user[1]) <= Tier(c)
              /\ Tier(c) = Tier(root_user[1])
                    => ~StrLess(c.displayName, root_user[1].displayName)

\* C4 amended: in automatic mode the selected root is a candidate of the
\* best title tier present; among the candidates of that tier none is
\* preferred to it by the remaining title checks taken in order, and it has
\* the smallest display name among the candidates that agree with it on all
\* four checks.
C4_BestTierThenChecksThenName ==
    AutoSelected =>
        /\ root_user[1] \in Range(root_candidates)
        /\ \A c \in Range(root_candidates) :
              /\ Tier(root_user[1]) <= Tier(c)
              /\ ~ChecksPrefer(c, root_user[1])
              /\ TitleChecks(c) = TitleChecks(root_user[1])
                    => ~StrLess(c.displayName, root_user[1].displayName)

\* C4 witness: two candidates of the best tier that differ on a later title check, the
\* selected one with the greater display name.
C4_Witness ==
    /\ AutoSelected
    /\ \E c \in Range(root_candidates) :
          /\ Tier(c) = Tier(root_user[1])
          /\ TitleChecks(c) # TitleChecks(root_user[1])
          /\ StrLess(c.displayName, root_user[1].displayName)

\* C5: in every tree that is returned each record id occurs in at most one
\* node, and the number of nodes is the number of distinct ids reachable
\* from the root id along reports_by_manager.
C5_NodesAreReachableIds ==
    org_hierarchy # <<>> =>
        LET tree == org_hierarchy[1]
        IN /\ \A p, q \in PathsOf(tree) :
                  NodeAt(tree, p).id = NodeAt(tree, q).id => p = q
           /\ Cardinality(PathsOf(tree)) =
                  Cardinality(ReachedFrom({tree.id}, ReportEdges(reports_by_manager)))

\* The filtered records that the start email names, ignoring case.
Named(email, users) ==
    { i \in 1..Len(users) :
        \/ Lower(users[i].mail) = Lower(email)
        \/ Lower(users[i].userPrincipalName) = Lower(email) }

\* C6: with a start email the root is the first record of the filtered set
\* whose mail or userPrincipalName equals it ignoring case; if no filtered
\* record matches the run aborts: no tree is built and no file written.
C6_ExplicitRoot ==
    (Selected /\ start_email # <<>>) =>
        LET named == Named(start_email, all_users)
        IN IF named = {}
           THEN pc = "aborted" /\ org_hierarchy = <<>> /\ ~output_written
           ELSE /\ pc # "aborted"
                /\ root_user = << all_users[CHOOSE i \in named : \A j \in named : i <= j] >>

\* C6 witness: the start email names a removed person and, in another case of letters
\* only, a kept one who is not first in the listing.
C6_Witness ==
    /\ pc = "done"
    /\ start_email # <<>>
    /\ \E i \in 1..Len(all_users_raw) :
          /\ all_users_raw[i] \notin Range(all_users)
          /\ Lower(all_users_raw[i].mail) = Lower(start_email)
    /\ root_user[1].mail # start_email
    /\ root_user[1] # all_users[1]

\* C6, the other case: the matching person was removed by the local filter
\* and the run aborted.
C6_WitnessRemoved ==
    /\ pc = "aborted"
    /\ start_email # <<>>
    /\ all_users # <<>>
    /\ \E i \in 1..Len(all_users_raw) :
          Lower(all_users_raw[i].mail) = Lower(start_email)

\* C7: for every node of a returned tree hasManagerReports is true iff some
\* direct report has a direct report of its own, and needsStandardList has
\* the same value.
C7_ManagerFlags ==
    org_hierarchy # <<>> =>
        \A p \in PathsOf(org_hierarchy[1]) :
            LET node == NodeAt(org_hierarchy[1], p)
            IN /\ node.hasManagerReports <=>
                      \E i \in 1..Len(node.directReports) :
                          node.directReports[i].directReports # <<>>
               /\ node.needsStandardList = node.hasManagerReports

\* C7 witness: a tree with a manager of managers and a manager of none.
C7_Witness ==
    /\ org_hierarchy # <<>>
    /\ org_hierarchy[1].hasManagerReports
    /\ \E p \in PathsOf(org_hierarchy[1]) :
          LET node == NodeAt(org_hierarchy[1], p)
          IN node.directReports # <<>> /\ ~node.hasManagerReports

\* The chain of scenario A: 1 manages 2 manages 3.
IsChain123 ==
    /\ Len(all_users) = 3
    /\ \A i \in 1..3 : all_users[i].id = i /\ all_users[i].manager = i - 1

\* C8: the counts are the number of nodes with a direct report and the number
\* of those whose needsStandardList is true; the chain 1 manages 2 manages 3
\* gives (2, 1) from root 1 and (1, 0) from root 2.
C8_ManagerCounts ==
    pc \in {"write", "done"} =>
        LET tree == org_hierarchy[1]
            managers == { p \in PathsOf(tree) : NodeAt(tree, p).directReports # <<>> }
        IN /\ total_managers = Cardinality(managers)
           /\ standard_list_managers =
                  Cardinality({ p \in managers : NodeAt(tree, p).needsStandardList })
           /\ (IsChain123 /\ tree.id = 1)
                  => total_managers = 2 /\ standard_list_managers = 1
           /\ (IsChain123 /\ tree.id = 2)
                  => total_managers = 1 /\ standard_list_managers = 0

\* C8 witness: the chain built from root 2 and counted.
C8_Witness ==
    /\ pc = "done"
    /\ IsChain123
    /\ org_hierarchy[1].id = 2
    /\ total_managers = 1

\* C9: after the index-building loop every key of reports_by_manager and
\* every id in its value lists is a key of users_by_id, and the build never
\* meets an id that is missing from users_by_id.
C9_ReportsAreKnown ==
    /\ Indexed =>
          \A k \in DOMAIN reports_by_manager :
              /\ k \in DOMAIN users_by_id
              /\ \A i \in 1..Len(reports_by_manager[k]) :
                    reports_by_manager[k][i] \in DOMAIN users_by_id
    /\ ~warned_missing

\* C9 witness: a finished build over tables with reports, from a set where somebody's
\* manager is outside the set.
C9_Witness ==
    /\ pc = "done"
    /\ reports_by_manager # <<>>
    /\ \E i \in 1..Len(all_users) :
          all_users[i].manager # 0 /\ all_users[i].manager \notin IdsOf(all_users)

\* C10: in automatic mode with pairwise distinct ids the build terminates for
\* every assignment of manager references, cyclic ones included.
C10_AutomaticBuildTerminates ==
    (start_email = <<>> /\ DistinctIds(all_users)) => pc # "crashed"

\* C10 witness: a finished automatic run over distinct ids whose manager references hold
\* a cycle.
C10_Witness ==
    /\ pc = "done"
    /\ start_email = <<>>
    /\ DistinctIds(all_users)
    /\ CyclicManagers(all_users)

====
